---- MODULE Spec2Model ----
(***************************************************************************)
(* Model of src/server.js: class VoteServer, a WebSocket vote server.      *)
(*                                                                         *)
(* Node runs every event handler to completion on one thread, so each      *)
(* handler ('connection', 'message', 'close') is one atomic action.        *)
(* Client identifiers (uuidv4) are modelled by fresh integers 1, 2, ...    *)
(* A JavaScript value is a record tagged by its type in field ty.          *)
(* The ws library emits 'message' for a socket only before it emits        *)
(* 'close' for it, so messages are handled for registered clients only;    *)
(* the socket of a registered client may already have left the OPEN state  *)
(* (readyState CLOSING) when one of its messages is handled.               *)
(***************************************************************************)
EXTENDS Integers, Sequences, FiniteSets

VARIABLES
    clients,       \* this.clients: the keys of the Map, in insertion order
    votes,         \* this.votes: candidate -> count
    votedClients,  \* this.votedClients: set of client ids
    readyState,    \* ws.readyState of the socket created for each id
    nextId,        \* the next fresh client id (uuidv4)
    sent,          \* per socket, the messages handed to ws.send, in order
    accepted,      \* history: per id, the candidates of its recorded votes
    lastReply,     \* history: the last request_tally reply sent since the
                   \* last recorded vote (<<>> when there is none)
    handled        \* history: number of 'message' events handled so far

vars == <<clients, votes, votedClients, readyState, nextId, sent, accepted,
          lastReply, handled>>

\* ------------------------------------------------------------------ bounds
MaxSessions == 2
MaxInbound == 2
MaxInboundLong == 3

Ids == 1..MaxSessions

\* ------------------------------------------------------- program constants
candidates == <<"Candidate A", "Candidate B", "Candidate C">>

CandidateSet == {candidates[i] : i \in DOMAIN candidates}

\* ------------------------------------------------------------ JavaScript
Undefined == [ty |-> "undefined"]
Null == [ty |-> "null"]
Str(s) == [ty |-> "string", s |-> s]
Num(s) == [ty |-> "number", s |-> s]
Obj(type, candidate) == [ty |-> "object", type |-> type, candidate |-> candidate]

\* The text frames clients send in this model.
FrameVoteA == "{\"type\":\"vote\",\"candidate\":\"Candidate A\"}"
FrameVoteB == "{\"type\":\"vote\",\"candidate\":\"Candidate B\"}"
FrameVoteZ == "{\"type\":\"vote\",\"candidate\":\"Candidate Z\"}"
FrameVoteNoCandidate == "{\"type\":\"vote\"}"
FrameVoteNumber == "{\"type\":\"vote\",\"candidate\":5}"
FrameRequestTally == "{\"type\":\"request_tally\"}"
FramePing == "{\"type\":\"ping\"}"
FrameNull == "null"
FrameGarbage == "not json"

Frames ==
    { FrameVoteA, FrameVoteB, FrameVoteZ, FrameVoteNoCandidate, FrameVoteNumber,
      FrameRequestTally, FramePing, FrameNull, FrameGarbage }

\* JSON.parse(data) on the frames above: the parsed value, or a SyntaxError.
JSONparse(data) ==
    CASE data = FrameVoteA ->
            [threw |-> FALSE, value |-> Obj(Str("vote"), Str("Candidate A"))]
      [] data = FrameVoteB ->
            [threw |-> FALSE, value |-> Obj(Str("vote"), Str("Candidate B"))]
      [] data = FrameVoteZ ->
            [threw |-> FALSE, value |-> Obj(Str("vote"), Str("Candidate Z"))]
      [] data = FrameVoteNoCandidate ->
            [threw |-> FALSE, value |-> Obj(Str("vote"), Undefined)]
      [] data = FrameVoteNumber ->
            [threw |-> FALSE, value |-> Obj(Str("vote"), Num("5"))]
      [] data = FrameRequestTally ->
            [threw |-> FALSE, value |-> Obj(Str("request_tally"), Undefined)]
      [] data = FramePing ->
            [threw |-> FALSE, value |-> Obj(Str("ping"), Undefined)]
      [] data = FrameNull ->
            [threw |-> FALSE, value |-> Null]
      [] OTHER ->
            [threw |-> TRUE]

\* Reading a property of null throws a TypeError.
PropertyThrows(message) == message.ty \in {"null", "undefined"}

\* message.type
TypeOf(message) == IF message.ty = "object" THEN message.type ELSE Undefined

\* const { candidate } = message
CandidateOf(message) ==
    IF message.ty = "object" THEN message.candidate ELSE Undefined

\* this.candidates.includes(candidate)
Includes(candidate) ==
    /\ candidate.ty = "string"
    /\ \E i \in DOMAIN candidates : candidates[i] = candidate.s

\* -------------------------------------------------------------- messages
ErrorMsg(text) == [type |-> "error", message |-> text]

\* getTally(): the entries of this.votes in insertion order
GetTally(v) ==
    [i \in DOMAIN candidates |-> [candidate |-> candidates[i], votes |-> v[candidates[i]]]]

TallyUpdate(v, vc) ==
    [type |-> "tally_update", tally |-> GetTally(v), totalVotes |-> Cardinality(vc)]

\* mutant of Welcome: the welcome always carries the initial, all-zero tally
WelcomeInitialTally(clientId, v) ==
    [type |-> "welcome", clientId |-> clientId, candidates |-> candidates,
     tally |-> GetTally([c \in DOMAIN v |-> 0])]

Welcome(clientId, v) ==
    [type |-> "welcome", clientId |-> clientId, candidates |-> candidates,
     tally |-> GetTally(v)]

VoteConfirmed(candidate) == [type |-> "vote_confirmed", candidate |-> candidate]

\* sendToClient(ws, message): ws.send happens only on an OPEN socket
SendToClient(log, rs, id, message) ==
    IF rs[id] = "OPEN" THEN [log EXCEPT ![id] = Append(@, message)] ELSE log

\* mutant of ForEachSend: the loop ends at the first socket that is not OPEN
RECURSIVE ForEachSendStopsAtClosed(_, _, _, _)
ForEachSendStopsAtClosed(log, rs, cs, message) ==
    IF cs = <<>> \/ rs[Head(cs)] # "OPEN" THEN log
    ELSE ForEachSendStopsAtClosed(SendToClient(log, rs, Head(cs), message),
                                  rs, Tail(cs), message)

\* this.clients.forEach(ws => this.sendToClient(ws, tallyMessage))
RECURSIVE ForEachSend(_, _, _, _)
ForEachSend(log, rs, cs, message) ==
    IF cs = <<>> THEN log
    ELSE ForEachSend(SendToClient(log, rs, Head(cs), message), rs, Tail(cs), message)

\* broadcastTally(): one message built once, sent to every registered socket
BroadcastTally(log, rs, cs, v, vc) == ForEachSend(log, rs, cs, TallyUpdate(v, vc))

Registered == {clients[i] : i \in DOMAIN clients}

\* this.clients.delete(clientId)
MapDelete(cs, id) == SelectSeq(cs, LAMBDA k : k # id)

\* ------------------------------------------------------------------ state
Init ==
    /\ clients = <<>>
    /\ votes = [c \in CandidateSet |-> 0]
    /\ votedClients = {}
    /\ readyState = [i \in Ids |-> "CONNECTING"]
    /\ nextId = 1
    /\ sent = [i \in Ids |-> <<>>]
    /\ accepted = [i \in Ids |-> <<>>]
    /\ lastReply = <<>>
    /\ handled = 0

\* server.on('connection')
OnConnection ==
    /\ nextId <= MaxSessions
    /\ LET clientId == nextId
           rs == [readyState EXCEPT ![clientId] = "OPEN"]
       IN /\ clients' = Append(clients, clientId)
          /\ readyState' = rs
          /\ sent' = SendToClient(sent, rs, clientId, Welcome(clientId, votes))
    /\ nextId' = nextId + 1
    /\ UNCHANGED <<votes, votedClients, accepted, lastReply, handled>>

\* mutant of AlreadyVotedReply: the refusal is followed by a tally broadcast
AlreadyVotedReplyBroadcast(clientId) ==
    /\ sent' = BroadcastTally(SendToClient(sent, readyState, clientId,
                                           ErrorMsg("You have already voted!")),
                              readyState, clients, votes, votedClients)
    /\ UNCHANGED <<votes, votedClients, accepted, lastReply>>

\* handleVote, lines 109-113: the reply to a client that has voted
AlreadyVotedReply(clientId) ==
    /\ sent' = SendToClient(sent, readyState, clientId,
                            ErrorMsg("You have already voted!"))
    /\ UNCHANGED <<votes, votedClients, accepted, lastReply>>

\* mutant of InvalidCandidateReply: the refused voter is marked as voted
InvalidCandidateReplyMarksVoted(clientId) ==
    /\ sent' = SendToClient(sent, readyState, clientId,
                            ErrorMsg("Invalid candidate selected!"))
    /\ votedClients' = votedClients \cup {clientId}
    /\ UNCHANGED <<votes, accepted, lastReply>>

\* handleVote, lines 118-122: the reply to a vote for an unknown candidate
InvalidCandidateReply(clientId) ==
    /\ sent' = SendToClient(sent, readyState, clientId,
                            ErrorMsg("Invalid candidate selected!"))
    /\ UNCHANGED <<votes, votedClients, accepted, lastReply>>

\* mutant of RecordVote: line 127 (votedClients.add) is missing
RecordVoteNoMark(clientId, candidate) ==
    LET v == [votes EXCEPT ![candidate] = @ + 1]
        confirmed == SendToClient(sent, readyState, clientId, VoteConfirmed(candidate))
    IN /\ votes' = v
       /\ votedClients' = votedClients
       /\ sent' = BroadcastTally(confirmed, readyState, clients, v, votedClients)
       /\ accepted' = [accepted EXCEPT ![clientId] = Append(@, candidate)]
       /\ lastReply' = <<>>

\* mutant of RecordVote: the count is written without reading the old one
RecordVoteLostUpdate(clientId, candidate) ==
    LET v == [votes EXCEPT ![candidate] = 1]
        vc == votedClients \cup {clientId}
        confirmed == SendToClient(sent, readyState, clientId, VoteConfirmed(candidate))
    IN /\ votes' = v
       /\ votedClients' = vc
       /\ sent' = BroadcastTally(confirmed, readyState, clients, v, vc)
       /\ accepted' = [accepted EXCEPT ![clientId] = Append(@, candidate)]
       /\ lastReply' = <<>>

\* handleVote, lines 125-136: record the vote, confirm it, broadcast the tally
RecordVote(clientId, candidate) ==
    LET v == [votes EXCEPT ![candidate] = @ + 1]
        vc == votedClients \cup {clientId}
        confirmed == SendToClient(sent, readyState, clientId, VoteConfirmed(candidate))
    IN /\ votes' = v
       /\ votedClients' = vc
       /\ sent' = BroadcastTally(confirmed, readyState, clients, v, vc)
       /\ accepted' = [accepted EXCEPT ![clientId] = Append(@, candidate)]
       /\ lastReply' = <<>>

\* mutant of HandleVote: the check of votedClients (line 108) is missing
HandleVoteNoVotedCheck(clientId, message) ==
    IF ~Includes(CandidateOf(message))
    THEN InvalidCandidateReply(clientId)
    ELSE RecordVote(clientId, CandidateOf(message).s)

\* mutant of HandleVote: the check of the candidate list (line 117) is
\* missing and a vote creates the entry of a candidate that has none
HandleVoteAnyCandidate(clientId, message) ==
    IF clientId \in votedClients
    THEN AlreadyVotedReply(clientId)
    ELSE IF CandidateOf(message).ty # "string"
         THEN InvalidCandidateReply(clientId)
         ELSE LET name == CandidateOf(message).s
                  v == [c \in DOMAIN votes \cup {name} |->
                          IF c = name
                          THEN (IF c \in DOMAIN votes THEN votes[c] ELSE 0) + 1
                          ELSE votes[c]]
                  vc == votedClients \cup {clientId}
                  confirmed == SendToClient(sent, readyState, clientId,
                                            VoteConfirmed(name))
              IN /\ votes' = v
                 /\ votedClients' = vc
                 /\ sent' = BroadcastTally(confirmed, readyState, clients, v, vc)
                 /\ accepted' = [accepted EXCEPT ![clientId] = Append(@, name)]
                 /\ lastReply' = <<>>

\* mutant of HandleVote: the candidate is validated before the voted check
HandleVoteCandidateFirst(clientId, message) ==
    IF ~Includes(CandidateOf(message))
    THEN InvalidCandidateReply(clientId)
    ELSE IF clientId \in votedClients
         THEN AlreadyVotedReply(clientId)
         ELSE RecordVote(clientId, CandidateOf(message).s)

\* handleVote(clientId, message)
HandleVote(clientId, message) ==
    IF clientId \in votedClients
    THEN AlreadyVotedReply(clientId)
    ELSE IF ~Includes(CandidateOf(message))
         THEN InvalidCandidateReply(clientId)
         ELSE RecordVote(clientId, CandidateOf(message).s)

\* sendTallyToClient(clientId)
SendTallyToClient(clientId) ==
    /\ sent' = IF clientId \in Registered
               THEN SendToClient(sent, readyState, clientId,
                                 TallyUpdate(votes, votedClients))
               ELSE sent
    /\ lastReply' = IF clientId \in Registered /\ readyState[clientId] = "OPEN"
                    THEN TallyUpdate(votes, votedClients)
                    ELSE lastReply
    /\ UNCHANGED <<votes, votedClients, accepted>>

\* mutant of HandleMessage: a message of an unknown type is ignored
HandleMessageDropsUnknown(clientId, message) ==
    CASE TypeOf(message) = Str("vote") -> HandleVote(clientId, message)
      [] TypeOf(message) = Str("request_tally") -> SendTallyToClient(clientId)
      [] OTHER -> UNCHANGED <<sent, votes, votedClients, accepted, lastReply>>

\* handleMessage(clientId, message): the switch on message.type
HandleMessage(clientId, message) ==
    CASE TypeOf(message) = Str("vote") -> HandleVote(clientId, message)
      [] TypeOf(message) = Str("request_tally") -> SendTallyToClient(clientId)
      [] OTHER ->
            /\ sent' = SendToClient(sent, readyState, clientId,
                                    ErrorMsg("Unknown message type"))
            /\ UNCHANGED <<votes, votedClients, accepted, lastReply>>

\* mutant of CatchParseError: the error is sent to every registered client
CatchParseErrorToAll(clientId) ==
    /\ sent' = ForEachSend(sent, readyState, clients,
                           ErrorMsg("Invalid message format"))
    /\ UNCHANGED <<votes, votedClients, accepted, lastReply>>

\* the catch block of ws.on('message')
CatchParseError(clientId) ==
    /\ sent' = SendToClient(sent, readyState, clientId,
                            ErrorMsg("Invalid message format"))
    /\ UNCHANGED <<votes, votedClients, accepted, lastReply>>

\* ws.on('message') of the socket of clientId, for the frame data
OnMessageFrame(clientId, data) ==
    /\ clientId \in Registered
    /\ handled < MaxInbound
    /\ handled' = handled + 1
    /\ LET parsed == JSONparse(data) IN
       IF parsed.threw \/ PropertyThrows(parsed.value)
       THEN CatchParseError(clientId)
       ELSE HandleMessage(clientId, parsed.value)
    /\ UNCHANGED <<clients, readyState, nextId>>

OnMessage == \E clientId \in Ids, data \in Frames : OnMessageFrame(clientId, data)

\* The socket of a registered client leaves the OPEN state (close handshake
\* started, or the peer ended the connection) before 'close' is emitted.
TransportClosingOf(clientId) ==
    /\ clientId \in Registered
    /\ readyState[clientId] = "OPEN"
    /\ readyState' = [readyState EXCEPT ![clientId] = "CLOSING"]
    /\ UNCHANGED <<clients, votes, votedClients, nextId, sent, accepted,
                   lastReply, handled>>

TransportClosing == \E clientId \in Ids : TransportClosingOf(clientId)

\* mutant of OnCloseOf: the disconnect of a voter also resets the counts
OnCloseDropsVotes(clientId) ==
    /\ clientId \in Registered
    /\ clients' = MapDelete(clients, clientId)
    /\ votedClients' = votedClients \ {clientId}
    /\ votes' = IF clientId \in votedClients THEN [c \in DOMAIN votes |-> 0] ELSE votes
    /\ readyState' = [readyState EXCEPT ![clientId] = "CLOSED"]
    /\ UNCHANGED <<nextId, sent, accepted, lastReply, handled>>

\* mutant of OnCloseOf: line 78 (clients.delete) is missing
OnCloseKeepsClient(clientId) ==
    /\ clientId \in Registered
    /\ clients' = clients
    /\ votedClients' = votedClients \ {clientId}
    /\ readyState' = [readyState EXCEPT ![clientId] = "CLOSED"]
    /\ UNCHANGED <<votes, nextId, sent, accepted, lastReply, handled>>

\* mutant of OnCloseOf: line 79 (votedClients.delete) is missing
OnCloseKeepsVoted(clientId) ==
    /\ clientId \in Registered
    /\ clients' = MapDelete(clients, clientId)
    /\ votedClients' = votedClients
    /\ readyState' = [readyState EXCEPT ![clientId] = "CLOSED"]
    /\ UNCHANGED <<votes, nextId, sent, accepted, lastReply, handled>>

\* ws.on('close')
OnCloseOf(clientId) ==
    /\ clientId \in Registered
    /\ clients' = MapDelete(clients, clientId)
    /\ votedClients' = votedClients \ {clientId}
    /\ readyState' = [readyState EXCEPT ![clientId] = "CLOSED"]
    /\ UNCHANGED <<votes, nextId, sent, accepted, lastReply, handled>>

OnClose == \E clientId \in Ids : OnCloseOf(clientId)

Next == OnConnection \/ OnMessage \/ TransportClosing \/ OnClose

Spec == Init /\ [][Next]_vars

\* The same server observed over runs of up to MaxInboundLong messages.
\* ws.on('message') of the socket of clientId, for the frame data
OnMessageFrameLong(clientId, data) ==
    /\ clientId \in Registered
    /\ handled < MaxInboundLong
    /\ handled' = handled + 1
    /\ LET parsed == JSONparse(data) IN
       IF parsed.threw \/ PropertyThrows(parsed.value)
       THEN CatchParseError(clientId)
       ELSE HandleMessage(clientId, parsed.value)
    /\ UNCHANGED <<clients, readyState, nextId>>

OnMessageLong ==
    \E clientId \in Ids, data \in Frames : OnMessageFrameLong(clientId, data)

NextLong == OnConnection \/ OnMessageLong \/ TransportClosing \/ OnClose

SpecLong == Init /\ [][NextLong]_vars

\* ============================================================== properties
\* Helpers of the properties below (they read the state, they model no code).
Last(q) == q[Len(q)]

Extends(new, old, n) ==
    /\ Len(new) = Len(old) + n
    /\ SubSeq(new, 1, Len(old)) = old

RECURSIVE SumTally(_)
SumTally(tally) ==
    IF tally = <<>> THEN 0 ELSE Head(tally).votes + SumTally(Tail(tally))

Occurrences(q, c) == Len(SelectSeq(q, LAMBDA x : x = c))

\* the number of recorded votes naming candidate c, over all sessions ever
RECURSIVE AcceptedUpTo(_, _, _)
AcceptedUpTo(acc, c, n) ==
    IF n = 0 THEN 0 ELSE Occurrences(acc[n], c) + AcceptedUpTo(acc, c, n - 1)

AcceptedFor(acc, c) == AcceptedUpTo(acc, c, MaxSessions)

\* sessions whose vote was accepted, disconnected ones included
AcceptedSessions == {id \in Ids : accepted[id] # <<>>}

AlreadyVotedError == [type |-> "error", message |-> "You have already voted!"]
InvalidCandidateError == [type |-> "error", message |-> "Invalid candidate selected!"]

VoteFrames ==
    {FrameVoteA, FrameVoteB, FrameVoteZ, FrameVoteNoCandidate, FrameVoteNumber}

Inbox(id) == {sent[id][i] : i \in DOMAIN sent[id]}

\* --------------------------------------------------------------------- C1
\* C1: in every reachable state the sum of the counts over all candidates
\* equals the number of distinct sessions whose vote was accepted, sessions
\* that have since disconnected included.
C1_TallySumIsAcceptedSessions ==
    SumTally(GetTally(votes)) = Cardinality(AcceptedSessions)

\* two sessions voted and one of them has disconnected
C1_Witness ==
    /\ Cardinality(AcceptedSessions) = 2
    /\ \E id \in AcceptedSessions : readyState[id] = "CLOSED"

C4_TotalVotesIsTallySum ==
    \A id \in Ids : \A i \in DOMAIN sent[id] :
        sent[id][i].type = "tally_update" =>
            sent[id][i].totalVotes = SumTally(sent[id][i].tally)

\* --------------------------------------------------------------------- C5
\* C5: a disconnect leaves every count unchanged and does not disturb the
\* other sessions, and a request_tally answered afterwards carries a tally
\* that counts every accepted vote, those of disconnected voters included.
C5_DisconnectKeepsTally ==
    /\ [][\A id \in Ids : OnCloseOf(id) =>
            /\ votes' = votes
            /\ sent' = sent
            /\ \A o \in Ids \ {id} :
                  /\ readyState'[o] = readyState[o]
                  /\ (o \in votedClients') = (o \in votedClients)
                  /\ (o \in Registered') = (o \in Registered)]_vars
    /\ [][\A r \in Ids :
            (readyState[r] = "OPEN" /\ OnMessageFrame(r, FrameRequestTally)) =>
                /\ Extends(sent'[r], sent[r], 1)
                /\ Last(sent'[r]).type = "tally_update"
                /\ \A i \in DOMAIN candidates :
                      /\ Last(sent'[r]).tally[i].candidate = candidates[i]
                      /\ Last(sent'[r]).tally[i].votes =
                            AcceptedFor(accepted, candidates[i])]_vars

\* a session was sent a tally that counts the vote of a voter who had left
C5_Witness ==
    \E a, r \in Ids :
        /\ a # r
        /\ readyState[a] = "CLOSED"
        /\ accepted[a] # <<>>
        /\ accepted[r] = <<>>
        /\ sent[r] # <<>>
        /\ Last(sent[r]).type = "tally_update"
        /\ Last(sent[r]).totalVotes = 0
        /\ SumTally(Last(sent[r]).tally) = 1

\* --------------------------------------------------------------------- C6
ValidVoteFrames == {FrameVoteA, FrameVoteB}

NamedCandidate(data) == IF data = FrameVoteA THEN "Candidate A" ELSE "Candidate B"

\* the tally after one more vote for candidate c
TallyPlusOne(c) ==
    [i \in DOMAIN candidates |->
        [candidate |-> candidates[i],
         votes |-> votes[candidates[i]] + (IF candidates[i] = c THEN 1 ELSE 0)]]

\* log new is log old followed by one tally_update carrying tally
GotTallyUpdate(new, old, tally) ==
    /\ Extends(new, old, 1)
    /\ Last(new).type = "tally_update"
    /\ Last(new).tally = tally

\* what the sessions other than the voter are sent when a vote for c is
\* accepted: one tally_update for an open socket, nothing for the others
OthersGetTally(id, c) ==
    \A o \in Ids \ {id} :
        IF o \in Registered /\ readyState[o] = "OPEN"
        THEN GotTallyUpdate(sent'[o], sent[o], TallyPlusOne(c))
        ELSE sent'[o] = sent[o]

VoterGetsConfirmationThenTally(id, c) ==
    /\ Extends(sent'[id], sent[id], 2)
    /\ sent'[id][Len(sent[id]) + 1] = [type |-> "vote_confirmed", candidate |-> c]
    /\ Last(sent'[id]).type = "tally_update"
    /\ Last(sent'[id]).tally = TallyPlusOne(c)

C7_RejectedVoteNoBroadcast ==
    [][\A id \in Ids, data \in VoteFrames :
          (/\ accepted[id] # <<>> \/ data \notin ValidVoteFrames
           /\ OnMessageFrame(id, data)) =>
              /\ \A o \in Ids \ {id} : sent'[o] = sent[o]
              /\ \/ sent'[id] = sent[id]
                 \/ /\ Extends(sent'[id], sent[id], 1)
                    /\ Last(sent'[id]).type = "error"]_vars

\* a second vote was refused while another session, which had been sent the
\* broadcast of the first vote, was still open and was sent nothing more
C7_Witness ==
    \E id, o \in Ids :
        /\ id # o
        /\ Len(sent[id]) = 4
        /\ Last(sent[id]) = AlreadyVotedError
        /\ readyState[o] = "OPEN"
        /\ Len(sent[o]) = 2
        /\ SumTally(sent[o][1].tally) = 0
        /\ sent[o][2].type = "tally_update"

\* --------------------------------------------------------------------- C8
\* C8 (for a requester whose socket is open, so that a reply exists):
\* request_tally changes no state and sends one tally_update to the
\* requester only, and any two request_tally replies with no accepted vote
\* between them carry identical snapshots (the same tally and totalVotes).
C8_Original ==
    [][\A r \in Ids :
          (readyState[r] = "OPEN" /\ OnMessageFrameLong(r, FrameRequestTally)) =>
              /\ UNCHANGED <<votes, votedClients, clients, readyState>>
              /\ Extends(sent'[r], sent[r], 1)
              /\ Last(sent'[r]).type = "tally_update"
              /\ \A o \in Ids \ {r} : sent'[o] = sent[o]
              /\ lastReply # <<>> => Last(sent'[r]) = lastReply]_vars

\* --------------------------------------------------------------------- C9
\* C9: in every reachable state a session identifier is in the voted set
\* if and only if exactly one accepted vote has been attributed to it.
C9_VotedIffOneAcceptedVote ==
    \A id \in Ids : (id \in votedClients) <=> (Len(accepted[id]) = 1)

\* -------------------------------------------------------------------- C10
IsWelcomeFor(w, id, acc) ==
    /\ w.type = "welcome"
    /\ w.clientId = id
    /\ w.candidates = <<"Candidate A", "Candidate B", "Candidate C">>
    /\ Len(w.tally) = 3
    /\ \A i \in 1..3 :
          w.tally[i] = [candidate |-> w.candidates[i],
                        votes |-> AcceptedFor(acc, w.candidates[i])]

\* C10: on connect the new session is registered as open and not voted, and
\* exactly one welcome message, carrying its identifier, the ordered
\* candidate list and the tally as of that moment, is sent to it and to no
\* other session, before any other message is sent to it.
C10_WelcomeOnConnect ==
    /\ [][nextId' # nextId =>
            /\ nextId \in Registered' \ Registered
            /\ readyState'[nextId] = "OPEN"
            /\ nextId \notin votedClients'
            /\ Len(sent'[nextId]) = 1
            /\ IsWelcomeFor(sent'[nextId][1], nextId, accepted)
            /\ \A o \in Ids \ {nextId} : sent'[o] = sent[o]]_vars
    /\ [](\A id \in Ids :
            IF readyState[id] = "CONNECTING"
            THEN sent[id] = <<>>
            ELSE /\ sent[id] # <<>>
                 /\ sent[id][1].type = "welcome"
                 /\ sent[id][1].clientId = id
                 /\ \A i \in 2..Len(sent[id]) : sent[id][i].type # "welcome")

\* a session that connected after a vote was welcomed with the tally that
\* counts the vote, and was sent another message afterwards
C10_Witness ==
    \E id \in Ids :
        /\ Len(sent[id]) >= 2
        /\ sent[id][1].type = "welcome"
        /\ sent[id][1].clientId = id
        /\ SumTally(sent[id][1].tally) = 1
        /\ sent[id][2].type # "welcome"

\* -------------------------------------------------------------------- C11
UndecodableFrames == {FrameGarbage, FrameNull}

\* the error the code sends for frame data that is undecodable or of a type
\* other than vote and request_tally
ErrorFor(data) ==
    IF data \in UndecodableFrames
    THEN [type |-> "error", message |-> "Invalid message format"]
    ELSE [type |-> "error", message |-> "Unknown message type"]

C12_MalformedVoteError ==
    [][\A id \in Ids, data \in {FrameVoteNoCandidate, FrameVoteNumber} :
          (/\ readyState[id] = "OPEN"
           /\ accepted[id] = <<>>
           /\ OnMessageFrame(id, data)) =>
              sent'[id] = Append(sent[id],
                                 [type |-> "error", message |-> "Invalid message format"])]_vars

\* -------------------------------------------------------------------- C13
\* C13: during a tally broadcast a registered session whose socket is not
\* open is skipped without an error: every other registered open session is
\* still sent the tally_update, and the vote that triggered the broadcast
\* stays recorded and confirmed to the voter.
C13_BroadcastSkipsClosedSockets ==
    [][\A id \in Ids, data \in ValidVoteFrames :
          (/\ readyState[id] = "OPEN"
           /\ accepted[id] = <<>>
           /\ \E o \in Registered : readyState[o] # "OPEN"
           /\ OnMessageFrame(id, data)) =>
              /\ \A o \in Ids :
                    IF o \in Registered /\ readyState[o] = "OPEN"
                    THEN /\ Last(sent'[o]).type = "tally_update"
                         /\ Len(sent'[o]) = Len(sent[o]) + (IF o = id THEN 2 ELSE 1)
                    ELSE sent'[o] = sent[o]
              /\ votes'[NamedCandidate(data)] = votes[NamedCandidate(data)] + 1
              /\ id \in votedClients'
              /\ sent'[id][Len(sent[id]) + 1] =
                    [type |-> "vote_confirmed", candidate |-> NamedCandidate(data)]]_vars

\* the vote of session 2 was confirmed and broadcast to it although session
\* 1, earlier in the registry, was registered with a socket no longer open
C13_Witness ==
    /\ 1 \in Registered
    /\ readyState[1] = "CLOSING"
    /\ sent[1][1].tally = GetTally([c \in CandidateSet |-> 0])
    /\ Len(sent[1]) = 1
    /\ accepted[2] = <<"Candidate A">>
    /\ Len(sent[2]) = 3
    /\ sent[2][2].type = "vote_confirmed"
    /\ sent[2][3].type = "tally_update"

C15_NoLostUpdate ==
    /\ [][\A id \in Ids, data \in ValidVoteFrames :
            (accepted[id] = <<>> /\ OnMessageFrame(id, data)) =>
                \A i \in 1..3 :
                    votes'[candidates[i]] =
                        IF candidates[i] = NamedCandidate(data)
                        THEN votes[candidates[i]] + 1
                        ELSE votes[candidates[i]]]_vars
    /\ [](\A i \in 1..3 :
            votes[candidates[i]] = AcceptedFor(accepted, candidates[i]))

\* two sessions voted for the same candidate
C15_Witness ==
    /\ votes["Candidate A"] = 2
    /\ accepted[1] = <<"Candidate A">>
    /\ accepted[2] = <<"Candidate A">>

\* -------------------------------------------------------------------- C16
\* C16: in every reachable state the tally has an entry for exactly the
\* candidates of the startup list, and every count is a non-negative integer.
C16_TallyDomainFixed ==
    /\ DOMAIN votes = {"Candidate A", "Candidate B", "Candidate C"}
    /\ \A c \in DOMAIN votes : votes[c] \in Nat

\* votes naming an unknown candidate and a non-string candidate were handled
\* and refused
C16_Witness ==
    /\ handled = 2
    /\ \E id \in Ids :
          /\ Len(sent[id]) = 3
          /\ sent[id][2] = InvalidCandidateError
          /\ sent[id][3] = InvalidCandidateError

\* -------------------------------------------------------------------- C17
\* C17: after a session's disconnect event the session is no longer in the
\* set iterated by broadcasts and no message is ever sent to it again.
C17_NoSendAfterDisconnect ==
    /\ [](\A id \in Ids : readyState[id] = "CLOSED" => id \notin Registered)
    /\ [][\A id \in Ids :
            (readyState[id] = "CLOSED" \/ OnCloseOf(id)) =>
                /\ sent'[id] = sent[id]
                /\ id \notin Registered'
                /\ readyState'[id] = "CLOSED"]_vars

\* a voter disconnected and a vote accepted after that (its broadcast counts
\* one connected voter for two votes) was not sent to it
C17_Witness ==
    \E a, o \in Ids :
        /\ a # o
        /\ readyState[a] = "CLOSED"
        /\ Len(sent[a]) = 3
        /\ accepted[a] # <<>>
        /\ accepted[o] # <<>>
        /\ Last(sent[o]).type = "tally_update"
        /\ Last(sent[o]).totalVotes = 1
        /\ SumTally(Last(sent[o]).tally) = 2

\* -------------------------------------------------------------------- C18
InvalidVoteFrames == {FrameVoteZ, FrameVoteNoCandidate, FrameVoteNumber}

C19_VotedAreRegistered ==
    /\ [](votedClients \subseteq Registered)
    /\ [][\A id \in Ids :
            /\ id \in votedClients' \ votedClients => id \in Registered
            /\ OnCloseOf(id) => id \notin Registered' /\ id \notin votedClients']_vars

\* a voter has disconnected and is in neither set, another voter is in both
C19_Witness ==
    \E a, o \in Ids :
        /\ accepted[a] # <<>>
        /\ readyState[a] = "CLOSED"
        /\ a \notin votedClients
        /\ o \in votedClients
        /\ o \in Registered

\* -------------------------------------------------------------------- C20
\* the type of the messages the code may answer frame data with
ReplyTypes(data) ==
    IF data = FrameRequestTally THEN {"tally_update"}
    ELSE IF data \in VoteFrames THEN {"vote_confirmed", "error"}
    ELSE {"error"}

\* C20: every inbound message handled for a session whose socket is open
\* results in at least one message sent back to that session: a tally_update
\* for request_tally, a vote_confirmed or an error for vote, an error for an
\* undecodable frame or any other type.
C20_EveryMessageAnswered ==
    [][\A id \in Ids, data \in Frames :
          (readyState[id] = "OPEN" /\ OnMessageFrame(id, data)) =>
              /\ Len(sent'[id]) > Len(sent[id])
              /\ SubSeq(sent'[id], 1, Len(sent[id])) = sent[id]
              /\ sent'[id][Len(sent[id]) + 1].type \in ReplyTypes(data)]_vars

\* a session was answered for a frame of an unknown type and for an
\* undecodable frame
C20_Witness ==
    \E id \in Ids :
        /\ readyState[id] = "OPEN"
        /\ [type |-> "error", message |-> "Unknown message type"] \in Inbox(id)
        /\ [type |-> "error", message |-> "Invalid message format"] \in Inbox(id)

====
